---------------------------- MODULE Spec2Model ----------------------------
(***************************************************************************)
(* Authentication triangle of ng-amplify-gen2-seed: AuthService (session   *)
(* record, refresh timer, start-up check), AuthInterceptor (bearer header, *)
(* coordinated 401 refresh) and AuthGuard.                                 *)
(*                                                                         *)
(* JavaScript runs one callback at a time.  Every action below is one run  *)
(* of the event loop: the code executed from the moment an awaited         *)
(* provider call (or an HTTP response) completes up to the next await of   *)
(* an external call.  An await of a service method that awaits nothing     *)
(* external itself (updateAuthState(false, null), setupSessionRefresh())   *)
(* resumes in the same run.  The identity provider and the backend are the *)
(* environment: each of their answers is drawn with \E.                    *)
(***************************************************************************)
EXTENDS Naturals, Sequences, FiniteSets

(* ------------------------------ bounds --------------------------------- *)

\* Number of HTTP requests that pass through the interceptor.
NumReq == 2

\* Number of timer callbacks that may be in flight at the same time.
MaxTimerCb == 1

\* Number of callers that may be suspended in waitForInitialization().
MaxInitWait == 1

Reqs == 1..NumReq

Cbs == 1..MaxTimerCb

(* --------------------------- value domains ----------------------------- *)

\* Identities the provider may return from getCurrentUser().
Users == {"alice", "bob"}

\* Access-token strings the provider may return from fetchAuthSession().
Tokens == {"t1", "t2"}

\* Expiry instants (payload.exp) of an access token; "null" when the
\* payload carries none or the session fetch failed.
Expiries == {"exp", "null"}

\* HTTP statuses the backend answers with.
Statuses == {"200", "401", "500"}

\* Request URLs, as sequences of lexical pieces.
Urls ==
  { <<"https://", "api.example.com", "/", "todos">>,
    <<"/", "auth", "/", "login">>,
    <<"/", "public", "/", "info">>,
    <<"https://", "cognito.", "amazonaws.com", "/">>,
    <<"https://", "main.", "amplifyapp.com", "/", "x">> }

\* The interceptor's list of URL fragments excluded from token injection.
excludedUrls ==
  { <<"/", "auth", "/">>,
    <<"/", "public", "/">>,
    <<"amazonaws.com">>,
    <<"amplifyapp.com">> }

\* Errors the provider rejects with (by name).
ProviderErrors ==
  { "UserNotConfirmedException", "NotAuthorizedException",
    "UserNotFoundException", "TooManyRequestsException",
    "LimitExceededException", "NetworkError" }

\* The error the provider's signOut() rejects with in the explored runs.
SignOutErrors == {"NetworkError"}

\* The error objects the account operations are rejected with: name and
\* code are the object's properties of those names ("": absent or empty).
\* The kind is carried by the name, or by the code of an object whose name
\* is absent or is the "Error" every Error object has by default.
ErrorObjects ==
  { [name |-> k, code |-> ""] : k \in ProviderErrors }
    \cup { [name |-> "", code |-> k] : k \in ProviderErrors }
    \cup { [name |-> "Error", code |-> k] : k \in ProviderErrors }
    \cup { [name |-> "Error", code |-> ""] }

\* No error object.
NoError == [name |-> "", code |-> ""]

\* Intermediate steps the provider's signIn() may answer with; the last one
\* stands for the steps handleSignInNextStep has no case for.
SignInSteps ==
  { "CONFIRM_SIGN_UP", "RESET_PASSWORD",
    "CONFIRM_SIGN_IN_WITH_NEW_PASSWORD_REQUIRED",
    "CONFIRM_SIGN_IN_WITH_TOTP_CODE" }

\* URLs of the routes protected by the guard.
GuardedUrls == {"/auth/todos", "/auth/profile"}

(* ------------------------------ state ---------------------------------- *)

VARIABLES
  authState,              \* AuthService.authStateSignal / authStateSubject
  isAuthenticatedSubject, \* AuthService.isAuthenticatedSubject
  currentUserSubject,     \* AuthService.currentUserSubject
  isInitialized,          \* AuthService.isInitialized
  init,                   \* position of the constructor's initializeAuth()
  bootCheck,              \* position of the constructor's checkAuthStatus()
  sessionRefreshTimer,    \* AuthService.sessionRefreshTimer field
  liveTimers,             \* number of timer subscriptions not unsubscribed
  cbs,                    \* timer callbacks in flight
  isRefreshing,           \* AuthInterceptor.isRefreshing
  refreshTokenSubject,    \* AuthInterceptor.refreshTokenSubject (value)
  curRefresher,           \* request that raised isRefreshing last
  reqs,                   \* requests passing through the interceptor
  forced,                 \* un-awaited signOut() calls made by the interceptor
  usr,                    \* position of the UI's call into the service
  guard,                  \* position of AuthGuard.canActivate(), attempted URL
  nav,                    \* last target handed to router.navigate
  returnUrl,              \* sessionStorage item 'returnUrl'
  initWait,               \* callers suspended in waitForInitialization()
  login,                  \* LoginComponent: position, isCheckingAuth, isRedirecting
  last                    \* the call that returned in the last step

vars ==
  << authState, isAuthenticatedSubject, currentUserSubject, isInitialized,
     init, bootCheck, sessionRefreshTimer, liveTimers, cbs, isRefreshing,
     refreshTokenSubject, curRefresher, reqs, forced, usr, guard, nav,
     returnUrl, initWait, login, last >>

(* ----------------------- AuthService: pure parts ----------------------- *)

\* The initial value of authStateSignal.
DefaultState ==
  [ isAuthenticated |-> FALSE, user |-> "null", isLoading |-> FALSE,
    error |-> "null", sessionExpiry |-> "null" ]

\* Mutant of updateAuthState: the identity is not stored.
updateAuthStateFlagOnly(ld, isAuth, user, expiry) ==
  [ isAuthenticated |-> isAuth, user |-> "null", isLoading |-> ld,
    error |-> "null", sessionExpiry |-> IF isAuth THEN expiry ELSE "null" ]

\* updateAuthState: isLoading is read before getSessionExpiry() is awaited
\* (ld is that earlier reading); the record is replaced after it.
updateAuthState(ld, isAuth, user, expiry) ==
  [ isAuthenticated |-> isAuth, user |-> user, isLoading |-> ld,
    error |-> "null", sessionExpiry |-> IF isAuth THEN expiry ELSE "null" ]

setLoading(st, isLoading) == [st EXCEPT !.isLoading = isLoading]

setError(st, error) == [st EXCEPT !.error = error]

\* The user-facing message handleAuthError chooses for error.name || error.code.
userMessage(kind) ==
  CASE kind = "UserNotConfirmedException" ->
         "Please confirm your email address before signing in."
    [] kind = "NotAuthorizedException" -> "Invalid email or password."
    [] kind = "UserNotFoundException" ->
         "No account found with this email address."
    [] kind = "TooManyRequestsException" ->
         "Too many failed attempts. Please try again later."
    [] kind = "LimitExceededException" ->
         "Attempt limit exceeded. Please try again later."
    [] OTHER -> "An unexpected error occurred. Please try again."

\* error.name || error.code: the name unless it is absent or empty.
errorKind(error) == IF error.name # "" THEN error.name ELSE error.code

\* Mutant of handleAuthError: the error is only logged.
handleAuthErrorLogOnly(st, kind) == st

handleAuthError(st, kind) == setError(st, userMessage(kind))

\* A record for `last`, the event of the last step: op names it, id is the
\* request or callback it belongs to (0: none), pre is isRefreshing as it
\* was before the step, ok and res describe the outcome, to is the target
\* handed to router.navigate ("none": no navigation), url the request URL,
\* threw whether the call rejected, user the identity it worked with, err
\* the error object the provider rejected with, out the error passed on to
\* the caller of a request ("none": no error passed on).
Ret(op, id, ok, res, to) ==
  [op |-> op, id |-> id, pre |-> FALSE, ok |-> ok, res |-> res, to |-> to,
   url |-> <<>>, threw |-> FALSE, user |-> "null", err |-> NoError,
   out |-> "none"]

NoRet == Ret("none", 0, FALSE, "none", "none")

\* What the provider may answer at each await of refreshSession().
RefreshReplies(pc) ==
  CASE pc = "rf_session" -> {"tokens", "notokens", "fail"}
    [] pc = "rf_user" -> Users \cup {"fail"}
    [] pc = "rf_expiry" -> Expiries
    [] pc = "rf_check" -> Expiries
    [] OTHER -> {}

\* Mutant of refreshSession: a provider failure is passed on without
\* resetting the record.
refreshSessionNoReset(t, st, reply) ==
  CASE t.pc = "rf_session" /\ reply = "tokens" ->
         [t |-> [t EXCEPT !.pc = "rf_user"], st |-> st, res |-> "pending"]
    [] t.pc = "rf_session" /\ reply = "notokens" ->
         [t |-> t, res |-> "resolved",
          st |-> updateAuthState(st.isLoading, FALSE, "null", "null")]
    [] t.pc = "rf_session" /\ reply = "fail" ->
         [t |-> t, res |-> "rejected", st |-> st]
    [] t.pc = "rf_user" /\ reply \in Users ->
         [t |-> [pc |-> "rf_expiry", user |-> reply, ld |-> st.isLoading],
          st |-> st, res |-> "pending"]
    [] t.pc = "rf_user" /\ reply = "fail" ->
         [t |-> t, res |-> "rejected", st |-> st]
    [] t.pc = "rf_expiry" ->
         [t |-> [pc |-> "rf_check", user |-> "null", ld |-> FALSE],
          res |-> "pending",
          st |-> updateAuthState(t.ld, TRUE, t.user, reply)]
    [] t.pc = "rf_check" ->
         [t |-> t, st |-> st, res |-> "resolved"]

\* refreshSession(), one await at a time.  t is the call's position
\* [pc, user, ld]; st the session record; reply the provider's answer.
\* Result: the new position, the new record, and res: "pending" while the
\* call still awaits, "resolved" or "rejected" when it has finished.
refreshSession(t, st, reply) ==
  CASE t.pc = "rf_session" /\ reply = "tokens" ->
         [t |-> [t EXCEPT !.pc = "rf_user"], st |-> st, res |-> "pending"]
    [] t.pc = "rf_session" /\ reply = "notokens" ->
         [t |-> t, res |-> "resolved",
          st |-> updateAuthState(st.isLoading, FALSE, "null", "null")]
    [] t.pc = "rf_session" /\ reply = "fail" ->
         [t |-> t, res |-> "rejected",
          st |-> updateAuthState(st.isLoading, FALSE, "null", "null")]
    [] t.pc = "rf_user" /\ reply \in Users ->
         [t |-> [pc |-> "rf_expiry", user |-> reply, ld |-> st.isLoading],
          st |-> st, res |-> "pending"]
    [] t.pc = "rf_user" /\ reply = "fail" ->
         [t |-> t, res |-> "rejected",
          st |-> updateAuthState(st.isLoading, FALSE, "null", "null")]
    [] t.pc = "rf_expiry" ->
         [t |-> [pc |-> "rf_check", user |-> "null", ld |-> FALSE],
          res |-> "pending",
          st |-> updateAuthState(t.ld, TRUE, t.user, reply)]
    [] t.pc = "rf_check" ->
         [t |-> t, st |-> st, res |-> "resolved"]

\* The positions at which a refreshSession() call is in flight.
RefreshPcs == {"rf_session", "rf_user", "rf_expiry", "rf_check"}

\* A task that is not running.
IdleTask == [pc |-> "idle", user |-> "null", ld |-> FALSE]

\* A task that has just called refreshSession() and awaits fetchAuthSession().
StartRefresh == [pc |-> "rf_session", user |-> "null", ld |-> FALSE]

\* getAccessToken(): the token string, or null on any failure.
getAccessToken(reply) == IF reply \in Tokens THEN reply ELSE "null"

AccessTokenReplies == Tokens \cup {"notokens", "fail"}

\* clearSessionTimer(): the pair <<sessionRefreshTimer, liveTimers>> after it.
clearSessionTimer(field, live) ==
  IF field = "sub" THEN <<"undefined", live - 1>> ELSE <<field, live>>

\* Mutant of setupSessionRefresh: the old timer is not cleared.
setupSessionRefreshNoClear(field, live) == <<"sub", live + 1>>

\* setupSessionRefresh(): clear the old timer, subscribe a new one.
setupSessionRefresh(field, live) ==
  <<"sub", clearSessionTimer(field, live)[2] + 1>>

\* signOut() from the completion of the provider's signOut() to its exit.
\* reply is "ok" or the error the provider rejected with.
signOut(st, field, live, reply) ==
  IF reply = "ok"
    THEN [st |-> setLoading(updateAuthState(st.isLoading, FALSE, "null", "null"), FALSE),
          timer |-> clearSessionTimer(field, live),
          to |-> "/login", throws |-> FALSE]
    ELSE [st |-> setLoading(handleAuthError(st, reply), FALSE),
          timer |-> <<field, live>>,
          to |-> "none", throws |-> TRUE]

SignOutReplies == {"ok"} \cup SignOutErrors

\* A request that has not entered the interceptor: pc its position, hdr the
\* Authorization header it carries, sends the number of times it was handed
\* to the backend, joined the refresher whose round it belongs to, t the
\* position of the refreshSession() call it made.
IdleReq ==
  [pc |-> "idle", hdr |-> <<>>, sends |-> 0, joined |-> 0, t |-> IdleTask]

\* The guard when no navigation is being checked.
IdleGuard == [pc |-> "idle", url |-> "none"]

\* LoginComponent before the login page is opened: its field initialisers.
NoLogin == [pc |-> "none", isCheckingAuth |-> TRUE, isRedirecting |-> FALSE]

(* --------------------------- initial state ----------------------------- *)

\* The state the constructor leaves: checkAuthStatus() and initializeAuth()
\* both await getCurrentUser(), initializeAuth() has set isLoading, and the
\* refresh timer is subscribed.
Init ==
  /\ authState = setLoading(DefaultState, TRUE)
  /\ isAuthenticatedSubject = FALSE
  /\ currentUserSubject = "null"
  /\ isInitialized = FALSE
  /\ init = [pc |-> "getUser", user |-> "null", ld |-> FALSE]
  /\ bootCheck = "await"
  /\ sessionRefreshTimer = setupSessionRefresh("undefined", 0)[1]
  /\ liveTimers = setupSessionRefresh("undefined", 0)[2]
  /\ cbs = [c \in Cbs |-> IdleTask]
  /\ isRefreshing = FALSE
  /\ refreshTokenSubject = "null"
  /\ curRefresher = 0
  /\ reqs = [r \in Reqs |-> IdleReq]
  /\ forced = 0
  /\ usr = IdleTask
  /\ guard = IdleGuard
  /\ nav = "none"
  /\ returnUrl = "null"
  /\ initWait = 0
  /\ login = NoLogin
  /\ last = NoRet

(* ------------------- AuthService: start-up and timer ------------------- *)

\* Mutant of checkAuthStatus: the provider's failure is passed on.
checkAuthStatusRethrow(reply) ==
  IF reply \in Users
    THEN [auth |-> TRUE, user |-> reply, threw |-> FALSE]
    ELSE [auth |-> FALSE, user |-> "null", threw |-> TRUE]

\* checkAuthStatus() after getCurrentUser() answered: the legacy subjects
\* and the returned boolean.
checkAuthStatus(reply) ==
  IF reply \in Users
    THEN [auth |-> TRUE, user |-> reply, threw |-> FALSE]
    ELSE [auth |-> FALSE, user |-> "null", threw |-> FALSE]

\* The constructor's checkAuthStatus() completes.
BootCheckReturn(reply) ==
  /\ bootCheck = "await"
  /\ bootCheck' = "done"
  /\ isAuthenticatedSubject' = checkAuthStatus(reply).auth
  /\ currentUserSubject' = checkAuthStatus(reply).user
  /\ last' = [Ret("checkAuthStatus", 0, checkAuthStatus(reply).auth, reply, "none")
                EXCEPT !.threw = checkAuthStatus(reply).threw]
  /\ UNCHANGED << login, returnUrl, initWait, authState, isInitialized, init, sessionRefreshTimer,
                  liveTimers, cbs, isRefreshing, refreshTokenSubject,
                  curRefresher, reqs, forced, usr, guard, nav >>

\* initializeAuth(), one await at a time: the new position, the new record
\* and whether the finally block has run.
initializeAuth(t, st, reply) ==
  CASE t.pc = "getUser" /\ reply \in Users ->
         [t |-> [pc |-> "expiry", user |-> reply, ld |-> st.isLoading],
          st |-> st, done |-> FALSE]
    [] t.pc = "getUser" /\ reply \notin Users ->
         [t |-> [t EXCEPT !.pc = "done"], done |-> TRUE,
          st |-> setLoading(updateAuthState(st.isLoading, FALSE, "null", "null"), FALSE)]
    [] t.pc = "expiry" ->
         [t |-> [pc |-> "check", user |-> "null", ld |-> FALSE],
          done |-> FALSE,
          st |-> updateAuthState(t.ld, TRUE, t.user, reply)]
    [] t.pc = "check" ->
         [t |-> [pc |-> "done", user |-> "null", ld |-> FALSE], done |-> TRUE,
          st |-> setLoading(st, FALSE)]

InitReplies(pc) ==
  CASE pc = "getUser" -> Users \cup {"none", "fail"}
    [] pc = "expiry" -> Expiries
    [] pc = "check" -> Expiries
    [] OTHER -> {}

InitializeAuthStep(reply) ==
  /\ reply \in InitReplies(init.pc)
  /\ LET n == initializeAuth(init, authState, reply) IN
       /\ init' = n.t
       /\ authState' = n.st
       /\ isInitialized' = (isInitialized \/ n.done)
       /\ initWait' = IF n.done THEN 0 ELSE initWait
       /\ last' = IF n.done /\ initWait > 0
                    THEN Ret("waitForInitialization", 0, TRUE, "awaited", "none")
                    ELSE NoRet
  /\ UNCHANGED << login, returnUrl, isAuthenticatedSubject, currentUserSubject, bootCheck,
                  sessionRefreshTimer, liveTimers, cbs, isRefreshing,
                  refreshTokenSubject, curRefresher, reqs, forced, usr,
                  guard, nav >>

\* Mutant of waitForInitialization: resolves without awaiting the promise.
waitForInitializationNoWait(initialized) == "resolved"

\* waitForInitialization(): resolves at once when isInitialized is set,
\* otherwise awaits initializationPromise (assigned by the constructor).
waitForInitialization(initialized) ==
  IF initialized THEN "resolved" ELSE "await"

\* Some caller invokes waitForInitialization().
WaitForInitializationCall ==
  /\ initWait < MaxInitWait
  /\ LET w == waitForInitialization(isInitialized) IN
       /\ initWait' = IF w = "await" THEN initWait + 1 ELSE initWait
       /\ last' = IF w = "await"
                    THEN NoRet
                    ELSE Ret("waitForInitialization", 0, TRUE, "immediate", "none")
  /\ UNCHANGED << login, returnUrl, authState, isAuthenticatedSubject,
                  currentUserSubject, isInitialized, init, bootCheck,
                  sessionRefreshTimer, liveTimers, cbs, isRefreshing,
                  refreshTokenSubject, curRefresher, reqs, forced, usr,
                  guard, nav >>

\* The lowest free callback slot (callbacks are interchangeable).
FreeCb(c) == cbs[c].pc = "idle" /\ \A d \in Cbs : d < c => cbs[d].pc # "idle"

\* A live timer fires: its callback calls refreshSession().
TimerFire(c) ==
  /\ liveTimers > 0
  /\ FreeCb(c)
  /\ cbs' = [cbs EXCEPT ![c] = StartRefresh]
  /\ last' = Ret("timerFire", c, TRUE, "none", "none")
  /\ UNCHANGED << login, returnUrl, initWait, authState, isAuthenticatedSubject, currentUserSubject,
                  isInitialized, init, bootCheck, sessionRefreshTimer,
                  liveTimers, isRefreshing, refreshTokenSubject,
                  curRefresher, reqs, forced, usr, guard, nav >>

\* Mutant of timerCallback: a failed refresh is only logged.
timerCallbackNoSignOut(n) ==
  IF n.res = "pending" THEN n.t ELSE IdleTask

\* The timer's callback after an answer to its refreshSession() call n:
\* it keeps awaiting, returns, or (catch) calls signOut().
timerCallback(n) ==
  CASE n.res = "pending" -> n.t
    [] n.res = "resolved" -> IdleTask
    [] n.res = "rejected" -> [pc |-> "signout", user |-> "null", ld |-> FALSE]

\* The callback's refreshSession() advances; when it rejects the callback
\* calls signOut(), which sets isLoading and awaits the provider.
TimerRefreshStep(c, reply) ==
  /\ reply \in RefreshReplies(cbs[c].pc)
  /\ LET n == refreshSession(cbs[c], authState, reply) IN
       /\ cbs' = [cbs EXCEPT ![c] = timerCallback(n)]
       /\ authState' = IF n.res = "rejected" THEN setLoading(n.st, TRUE) ELSE n.st
       /\ last' = IF n.res = "rejected"
                    THEN Ret("timerRefreshRejected", c, FALSE, reply, "none")
                    ELSE NoRet
  /\ UNCHANGED << login, returnUrl, initWait, isAuthenticatedSubject, currentUserSubject, isInitialized,
                  init, bootCheck, sessionRefreshTimer, liveTimers,
                  isRefreshing, refreshTokenSubject, curRefresher, reqs,
                  forced, usr, guard, nav >>

\* The signOut() forced by a timer callback returns.
TimerSignOutReturn(c, reply) ==
  /\ cbs[c].pc = "signout"
  /\ reply \in SignOutReplies
  /\ LET n == signOut(authState, sessionRefreshTimer, liveTimers, reply) IN
       /\ authState' = n.st
       /\ sessionRefreshTimer' = n.timer[1]
       /\ liveTimers' = n.timer[2]
       /\ nav' = IF n.to = "none" THEN nav ELSE n.to
       /\ last' = Ret("signOut", c, ~n.throws, "timer", n.to)
  /\ cbs' = [cbs EXCEPT ![c] = IdleTask]
  /\ UNCHANGED << login, returnUrl, initWait, isAuthenticatedSubject, currentUserSubject, isInitialized,
                  init, bootCheck, isRefreshing, refreshTokenSubject,
                  curRefresher, reqs, forced, usr, guard >>


(* --------------------------- AuthInterceptor --------------------------- *)

\* url.includes(fragment).
Includes(url, fragment) ==
  \E i \in 1..Len(url) :
    /\ i + Len(fragment) - 1 <= Len(url)
    /\ SubSeq(url, i, i + Len(fragment) - 1) = fragment

\* Mutant of shouldExcludeUrl: url.startsWith in place of url.includes.
shouldExcludeUrlStartsWith(url) ==
  \E excludedUrl \in excludedUrls :
    /\ Len(excludedUrl) <= Len(url)
    /\ SubSeq(url, 1, Len(excludedUrl)) = excludedUrl

shouldExcludeUrl(url) == \E excludedUrl \in excludedUrls : Includes(url, excludedUrl)

\* The Authorization header set by addAuthHeader (<<>>: no such header).
addAuthHeader(token) == <<"Bearer", token>>

\* Requests enter the interceptor in the order of their numbers.
NextToSend(r) == reqs[r].pc = "idle" /\ \A q \in Reqs : q < r => reqs[q].pc # "idle"

\* A request whose caller has received its result ("ok" or "failed").
Finished(pc) == [IdleReq EXCEPT !.pc = pc]

\* Mutant of intercept: the exclusion list is not consulted.
interceptAuthOnly(url, st) == IF st.isAuthenticated THEN "token" ELSE "plain"

\* intercept(): where the request goes.  "plain": handed to next.handle as
\* it is; "token": addTokenToRequest() awaits getAccessToken().
intercept(url, st) ==
  IF shouldExcludeUrl(url) THEN "plain"
  ELSE IF st.isAuthenticated THEN "token"
  ELSE "plain"

Intercept(r, url) ==
  /\ NextToSend(r)
  /\ LET to == intercept(url, authState) IN
       /\ reqs' = [reqs EXCEPT ![r].pc = to,
                               ![r].sends = IF to = "plain" THEN 1 ELSE 0]
       /\ last' = [Ret("intercept", r, TRUE, to, "none") EXCEPT !.url = url]
  /\ UNCHANGED << login, returnUrl, initWait, authState, isAuthenticatedSubject, currentUserSubject,
                  isInitialized, init, bootCheck, sessionRefreshTimer,
                  liveTimers, cbs, isRefreshing, refreshTokenSubject,
                  curRefresher, forced, usr, guard, nav >>

\* Mutant of addTokenToRequest: the header is set without testing the token.
addTokenToRequestUnchecked(token) == addAuthHeader(token)

\* addTokenToRequest() once getAccessToken() has answered: the header the
\* forwarded request carries.
addTokenToRequest(token) ==
  IF token # "null" THEN addAuthHeader(token) ELSE <<>>

AccessTokenReply(r, reply) ==
  /\ reqs[r].pc = "token"
  /\ reqs' = [reqs EXCEPT ![r].pc = "sent", ![r].sends = 1,
                          ![r].hdr = addTokenToRequest(getAccessToken(reply))]
  /\ last' = Ret("forward", r, TRUE, reply, "none")
  /\ UNCHANGED << login, returnUrl, initWait, authState, isAuthenticatedSubject, currentUserSubject,
                  isInitialized, init, bootCheck, sessionRefreshTimer,
                  liveTimers, cbs, isRefreshing, refreshTokenSubject,
                  curRefresher, forced, usr, guard, nav >>

\* A request forwarded without error handling gets its response, which is
\* passed to the caller as it is.
PlainResponse(r, status) ==
  /\ reqs[r].pc = "plain"
  /\ reqs' = [reqs EXCEPT ![r] = Finished(IF status = "200" THEN "ok" ELSE "failed")]
  /\ last' = [Ret("plainResponse", r, status = "200", status, "none")
                EXCEPT !.out = IF status = "200" THEN "none" ELSE status]
  /\ UNCHANGED << login, returnUrl, initWait, authState, isAuthenticatedSubject, currentUserSubject,
                  isInitialized, init, bootCheck, sessionRefreshTimer,
                  liveTimers, cbs, isRefreshing, refreshTokenSubject,
                  curRefresher, forced, usr, guard, nav >>

\* The waiter's switchMap on the value v taken from refreshTokenSubject.
waiterRelease(q, v) ==
  IF v # ""
    THEN [q EXCEPT !.pc = "wretry", !.hdr = addAuthHeader(v), !.sends = q.sends + 1]
    ELSE Finished("failed")

\* Mutant of handle401Error: the refresher does not clear refreshTokenSubject.
handle401ErrorKeepSlot(r) ==
  IF ~isRefreshing
    THEN /\ isRefreshing' = TRUE
         /\ refreshTokenSubject' = refreshTokenSubject
         /\ curRefresher' = r
         /\ reqs' = [reqs EXCEPT ![r].pc = "refresh", ![r].joined = r,
                                 ![r].hdr = <<>>, ![r].t = StartRefresh]
    ELSE /\ reqs' = [reqs EXCEPT ![r] =
                       IF refreshTokenSubject # "null"
                         THEN waiterRelease([@ EXCEPT !.joined = curRefresher],
                                            refreshTokenSubject)
                         ELSE [@ EXCEPT !.pc = "waiting", !.hdr = <<>>,
                                        !.joined = curRefresher]]
         /\ UNCHANGED << login, returnUrl, initWait, isRefreshing, refreshTokenSubject, curRefresher >>

\* handle401Error() entered by request r: the refresher branch when
\* isRefreshing is false, the waiter branch otherwise.  A BehaviorSubject
\* hands its current value to a new subscriber at once.  The header of the
\* first attempt is dropped here: a retry always replaces it (setHeaders).
handle401Error(r) ==
  IF ~isRefreshing
    THEN /\ isRefreshing' = TRUE
         /\ refreshTokenSubject' = "null"
         /\ curRefresher' = r
         /\ reqs' = [reqs EXCEPT ![r].pc = "refresh", ![r].joined = r,
                                 ![r].hdr = <<>>, ![r].t = StartRefresh]
    ELSE /\ reqs' = [reqs EXCEPT ![r] =
                       IF refreshTokenSubject # "null"
                         THEN waiterRelease([@ EXCEPT !.joined = curRefresher],
                                            refreshTokenSubject)
                         ELSE [@ EXCEPT !.pc = "waiting", !.hdr = <<>>,
                                        !.joined = curRefresher]]
         /\ UNCHANGED << login, returnUrl, initWait, isRefreshing, refreshTokenSubject, curRefresher >>

\* Mutant of catchError: every error response is handled as a 401.
catchErrorAny(status) ==
  IF status = "200" THEN [route |-> "next", error |-> "none"]
  ELSE [route |-> "handle401Error", error |-> "none"]

\* addTokenToRequest's catchError on the first attempt's response: a
\* success passes it by, a 401 goes to handle401Error(), any other error is
\* rethrown as it is (throwError(() => error)).
catchError(status) ==
  CASE status = "200" -> [route |-> "next", error |-> "none"]
    [] status = "401" -> [route |-> "handle401Error", error |-> "none"]
    [] OTHER -> [route |-> "throwError", error |-> status]

\* The first attempt's response reaches addTokenToRequest's catchError.
Response(r, status) ==
  /\ reqs[r].pc = "sent"
  /\ IF catchError(status).route = "handle401Error"
       THEN handle401Error(r)
       ELSE /\ reqs' = [reqs EXCEPT ![r] =
                          Finished(IF catchError(status).route = "next"
                                     THEN "ok" ELSE "failed")]
            /\ UNCHANGED << login, returnUrl, initWait, isRefreshing, refreshTokenSubject, curRefresher >>
  /\ last' = [Ret("response", r, status = "200", status, "none")
                EXCEPT !.pre = isRefreshing,
                       !.out = catchError(status).error]
  /\ UNCHANGED << login, returnUrl, initWait, authState, isAuthenticatedSubject, currentUserSubject,
                  isInitialized, init, bootCheck, sessionRefreshTimer,
                  liveTimers, cbs, forced, usr, guard, nav >>

\* The refresher's refreshSession() advances.  When it resolves,
\* refreshToken() calls getAccessToken(); when it rejects, catchError
\* clears the flag, calls signOut() (which sets isLoading and awaits the
\* provider) and passes the error on.
ReqRefreshStep(r, reply) ==
  /\ reqs[r].pc = "refresh"
  /\ reply \in RefreshReplies(reqs[r].t.pc)
  /\ LET n == refreshSession(reqs[r].t, authState, reply) IN
       CASE n.res = "pending" ->
              /\ reqs' = [reqs EXCEPT ![r].t = n.t]
              /\ authState' = n.st
              /\ last' = NoRet
              /\ UNCHANGED << login, returnUrl, initWait, isRefreshing, forced >>
         [] n.res = "resolved" ->
              /\ reqs' = [reqs EXCEPT ![r].pc = "rf_token", ![r].t = IdleTask]
              /\ authState' = n.st
              /\ last' = NoRet
              /\ UNCHANGED << login, returnUrl, initWait, isRefreshing, forced >>
         [] n.res = "rejected" ->
              /\ reqs' = [reqs EXCEPT ![r] = Finished("failed")]
              /\ authState' = setLoading(n.st, TRUE)
              /\ isRefreshing' = FALSE
              /\ forced' = forced + 1
              /\ last' = Ret("refreshRejected", r, FALSE, "refresh error", "none")
  /\ UNCHANGED << login, returnUrl, initWait, isAuthenticatedSubject, currentUserSubject, isInitialized,
                  init, bootCheck, sessionRefreshTimer, liveTimers, cbs,
                  refreshTokenSubject, curRefresher, usr, guard, nav >>

\* What refreshToken() emits for the token getAccessToken() returned.
refreshToken(token) == IF token = "null" THEN "" ELSE token

\* Mutant of refresherRelease: no signOut() when the refresh yields no token.
refresherReleaseNoSignOut(q, v) ==
  IF v # ""
    THEN [q |-> [q EXCEPT !.pc = "retry", !.hdr = addAuthHeader(v),
                          !.sends = q.sends + 1],
          signOuts |-> 0]
    ELSE [q |-> Finished("failed"), signOuts |-> 0]

\* The refresher's switchMap on the emitted value v: with a token the
\* request is retried with it; with '' signOut() is called and the error
\* thrown reaches the refresher's own catchError, which calls signOut() again.
refresherRelease(q, v) ==
  IF v # ""
    THEN [q |-> [q EXCEPT !.pc = "retry", !.hdr = addAuthHeader(v),
                          !.sends = q.sends + 1],
          signOuts |-> 0]
    ELSE [q |-> Finished("failed"), signOuts |-> 2]

\* refreshToken() emits: the refresher's switchMap clears the flag and
\* publishes the value, which releases every subscribed waiter in the same
\* run.
ReqRefreshToken(r, reply) ==
  /\ reqs[r].pc = "rf_token"
  /\ LET v == refreshToken(getAccessToken(reply))
         n == refresherRelease(reqs[r], v)
     IN
       /\ isRefreshing' = FALSE
       /\ refreshTokenSubject' = v
       /\ reqs' = [q \in Reqs |->
                    IF q = r THEN n.q
                    ELSE IF reqs[q].pc = "waiting" THEN waiterRelease(reqs[q], v)
                    ELSE reqs[q]]
       /\ forced' = forced + n.signOuts
       /\ authState' = IF n.signOuts > 0 THEN setLoading(authState, TRUE)
                       ELSE authState
       /\ last' = Ret("refreshed", r, v # "", reply, "none")
  /\ UNCHANGED << login, returnUrl, initWait, isAuthenticatedSubject, currentUserSubject, isInitialized,
                  init, bootCheck, sessionRefreshTimer, liveTimers, cbs,
                  curRefresher, usr, guard, nav >>

\* The refresher's stream on the response to its retried request: success
\* completes it (finalize clears the flag); any error reaches the
\* refresher's catchError, which clears the flag, calls signOut() and
\* passes the error on.  pc: where the request goes; signOuts: the
\* signOut() calls made.
retryOutcome(status) ==
  IF status = "200"
    THEN [pc |-> "ok", signOuts |-> 0]
    ELSE [pc |-> "failed", signOuts |-> 1]

RetryResponse(r, status) ==
  /\ reqs[r].pc = "retry"
  /\ LET n == retryOutcome(status) IN
       /\ reqs' = [reqs EXCEPT ![r] = Finished(n.pc)]
       /\ forced' = forced + n.signOuts
       /\ authState' = IF n.signOuts > 0 THEN setLoading(authState, TRUE)
                       ELSE authState
  /\ isRefreshing' = FALSE
  /\ last' = Ret("retryResponse", r, status = "200", status, "none")
  /\ UNCHANGED << login, returnUrl, initWait, isAuthenticatedSubject, currentUserSubject, isInitialized,
                  init, bootCheck, sessionRefreshTimer, liveTimers, cbs,
                  refreshTokenSubject, curRefresher, usr, guard, nav >>

\* Mutant of retryResult: a 401 answering the retry is handled like the
\* first one (the retry is piped through the same catchError).
retryResultAgain(q, status) ==
  IF status = "401" THEN [q EXCEPT !.pc = "sent"]
  ELSE Finished(IF status = "200" THEN "ok" ELSE "failed")

\* The waiter's stream on the response to its retried request: nothing
\* catches an error of the retry, so every response ends the request.
retryResult(q, status) == Finished(IF status = "200" THEN "ok" ELSE "failed")

\* A waiter's retried request gets its response, passed on as it is.
WaiterRetryResponse(r, status) ==
  /\ reqs[r].pc = "wretry"
  /\ reqs' = [reqs EXCEPT ![r] = retryResult(reqs[r], status)]
  /\ last' = Ret("waiterRetryResponse", r, status = "200", status, "none")
  /\ UNCHANGED << login, returnUrl, initWait, authState, isAuthenticatedSubject, currentUserSubject,
                  isInitialized, init, bootCheck, sessionRefreshTimer,
                  liveTimers, cbs, isRefreshing, refreshTokenSubject,
                  curRefresher, forced, usr, guard, nav >>

\* A signOut() the interceptor called without awaiting it returns.
ForcedSignOutReturn(reply) ==
  /\ forced > 0
  /\ reply \in SignOutReplies
  /\ forced' = forced - 1
  /\ LET n == signOut(authState, sessionRefreshTimer, liveTimers, reply) IN
       /\ authState' = n.st
       /\ sessionRefreshTimer' = n.timer[1]
       /\ liveTimers' = n.timer[2]
       /\ nav' = IF n.to = "none" THEN nav ELSE n.to
       /\ last' = Ret("signOut", 0, ~n.throws, "interceptor", n.to)
  /\ UNCHANGED << login, returnUrl, initWait, isAuthenticatedSubject, currentUserSubject, isInitialized,
                  init, bootCheck, cbs, isRefreshing, refreshTokenSubject,
                  curRefresher, reqs, usr, guard >>

(* ------------------------- UI calls and guard -------------------------- *)

\* The UI calls signOut(): isLoading is set, the provider's signOut() awaited.
UserSignOut ==
  /\ usr.pc = "idle"
  /\ usr' = [usr EXCEPT !.pc = "signout"]
  /\ authState' = setLoading(authState, TRUE)
  /\ last' = NoRet
  /\ UNCHANGED << login, returnUrl, initWait, isAuthenticatedSubject, currentUserSubject, isInitialized,
                  init, bootCheck, sessionRefreshTimer, liveTimers, cbs,
                  isRefreshing, refreshTokenSubject, curRefresher, reqs,
                  forced, guard, nav >>

UserSignOutReturn(reply) ==
  /\ usr.pc = "signout"
  /\ reply \in SignOutReplies
  /\ usr' = IdleTask
  /\ LET n == signOut(authState, sessionRefreshTimer, liveTimers, reply) IN
       /\ authState' = n.st
       /\ sessionRefreshTimer' = n.timer[1]
       /\ liveTimers' = n.timer[2]
       /\ nav' = IF n.to = "none" THEN nav ELSE n.to
       /\ last' = [Ret("signOut", 0, ~n.throws, "user", n.to)
                     EXCEPT !.threw = n.throws,
                            !.err = IF reply = "ok"
                                      THEN NoError
                                      ELSE [name |-> reply, code |-> ""]]
  /\ UNCHANGED << login, returnUrl, initWait, isAuthenticatedSubject, currentUserSubject, isInitialized,
                  init, bootCheck, cbs, isRefreshing, refreshTokenSubject,
                  curRefresher, reqs, forced, guard >>

\* Mutant of getReturnUrl: the stored URL is dropped for the default.
getReturnUrlDefault(stored) == [url |-> "/dashboard", stored |-> "null"]

\* Mutant of getReturnUrl: the item is not removed.
getReturnUrlKeep(stored) ==
  [url |-> IF stored \in {"null", ""} THEN "/dashboard" ELSE stored,
   stored |-> stored]

\* getReturnUrl(): the stored URL or the default (returnUrl || '/dashboard'),
\* and the emptied slot.
getReturnUrl(stored) ==
  [url |-> IF stored \in {"null", ""} THEN "/dashboard" ELSE stored,
   stored |-> "null"]

\* Mutant of handleSignInNextStep: the step is only logged.
handleSignInNextStepLogOnly(step) == "none"

\* handleSignInNextStep: the route navigated to ("none": no navigation).
handleSignInNextStep(step) ==
  CASE step = "CONFIRM_SIGN_UP" -> "/auth/confirm?step=signup"
    [] step = "RESET_PASSWORD" -> "/auth/reset-password"
    [] step = "CONFIRM_SIGN_IN_WITH_NEW_PASSWORD_REQUIRED" -> "/auth/new-password"
    [] OTHER -> "none"

\* What the provider may answer at each await of signIn().
SignInReplies(pc) ==
  CASE pc = "si_signIn" -> {"signedIn"} \cup SignInSteps \cup ProviderErrors
    [] pc = "si_user" -> Users \cup {"fail"}
    [] pc = "si_expiry" -> Expiries
    [] OTHER -> {}

\* Mutant of signIn: an intermediate step consumes the return URL too.
signInConsumeOnStep(t, st, field, live, stored, reply) ==
  CASE t.pc = "si_signIn" /\ reply = "signedIn" ->
         [t |-> [t EXCEPT !.pc = "si_user"], st |-> st,
          timer |-> <<field, live>>, stored |-> stored, to |-> "none",
          res |-> "pending"]
    [] t.pc = "si_signIn" /\ reply \in SignInSteps ->
         [t |-> t, st |-> setLoading(st, FALSE),
          timer |-> <<field, live>>, stored |-> getReturnUrl(stored).stored,
          to |-> handleSignInNextStep(reply), res |-> "resolved"]
    [] t.pc = "si_signIn" /\ reply \in ProviderErrors ->
         [t |-> t, st |-> setLoading(handleAuthError(st, reply), FALSE),
          timer |-> <<field, live>>, stored |-> stored, to |-> "none",
          res |-> "rejected"]
    [] t.pc = "si_user" /\ reply \in Users ->
         [t |-> [pc |-> "si_expiry", user |-> reply, ld |-> st.isLoading],
          st |-> st, timer |-> <<field, live>>, stored |-> stored,
          to |-> "none", res |-> "pending"]
    [] t.pc = "si_user" /\ reply = "fail" ->
         [t |-> t, st |-> setLoading(handleAuthError(st, reply), FALSE),
          timer |-> <<field, live>>, stored |-> stored, to |-> "none",
          res |-> "rejected"]
    [] t.pc = "si_expiry" ->
         [t |-> t,
          st |-> setLoading(updateAuthState(t.ld, TRUE, t.user, reply), FALSE),
          timer |-> setupSessionRefresh(field, live),
          stored |-> getReturnUrl(stored).stored,
          to |-> getReturnUrl(stored).url, res |-> "resolved"]

\* signIn(credentials) from the completion of one awaited provider call to
\* the next await or to its exit.  t is the call's position, st the session
\* record, field and live the timer, stored the return-URL slot.  Result:
\* the new values, the navigation target and res as for refreshSession.
signIn(t, st, field, live, stored, reply) ==
  CASE t.pc = "si_signIn" /\ reply = "signedIn" ->
         [t |-> [t EXCEPT !.pc = "si_user"], st |-> st,
          timer |-> <<field, live>>, stored |-> stored, to |-> "none",
          res |-> "pending"]
    [] t.pc = "si_signIn" /\ reply \in SignInSteps ->
         [t |-> t, st |-> setLoading(st, FALSE),
          timer |-> <<field, live>>, stored |-> stored,
          to |-> handleSignInNextStep(reply), res |-> "resolved"]
    [] t.pc = "si_signIn" /\ reply \in ProviderErrors ->
         [t |-> t, st |-> setLoading(handleAuthError(st, reply), FALSE),
          timer |-> <<field, live>>, stored |-> stored, to |-> "none",
          res |-> "rejected"]
    [] t.pc = "si_user" /\ reply \in Users ->
         [t |-> [pc |-> "si_expiry", user |-> reply, ld |-> st.isLoading],
          st |-> st, timer |-> <<field, live>>, stored |-> stored,
          to |-> "none", res |-> "pending"]
    [] t.pc = "si_user" /\ reply = "fail" ->
         [t |-> t, st |-> setLoading(handleAuthError(st, reply), FALSE),
          timer |-> <<field, live>>, stored |-> stored, to |-> "none",
          res |-> "rejected"]
    [] t.pc = "si_expiry" ->
         [t |-> t,
          st |-> setLoading(updateAuthState(t.ld, TRUE, t.user, reply), FALSE),
          timer |-> setupSessionRefresh(field, live),
          stored |-> getReturnUrl(stored).stored,
          to |-> getReturnUrl(stored).url, res |-> "resolved"]

\* The UI calls signIn(credentials): isLoading is set, the provider's
\* signIn() awaited.
UserSignIn ==
  /\ usr.pc = "idle"
  /\ usr' = [usr EXCEPT !.pc = "si_signIn"]
  /\ authState' = setLoading(authState, TRUE)
  /\ last' = NoRet
  /\ UNCHANGED << login, returnUrl, initWait, isAuthenticatedSubject,
                  currentUserSubject, isInitialized, init, bootCheck,
                  sessionRefreshTimer, liveTimers, cbs, isRefreshing,
                  refreshTokenSubject, curRefresher, reqs, forced, guard,
                  nav >>

\* signIn() advances by one provider answer.  The event of its exit carries
\* the provider's answer to signIn() (res), the identity fetched (user), the
\* return-URL slot as it was (url) and whether a timer was subscribed (pre).
UserSignInStep(reply) ==
  /\ reply \in SignInReplies(usr.pc)
  /\ LET n == signIn(usr, authState, sessionRefreshTimer, liveTimers,
                     returnUrl, reply)
     IN /\ usr' = IF n.res = "pending" THEN n.t ELSE IdleTask
        /\ authState' = n.st
        /\ sessionRefreshTimer' = n.timer[1]
        /\ liveTimers' = n.timer[2]
        /\ returnUrl' = n.stored
        /\ nav' = IF n.to = "none" THEN nav ELSE n.to
        /\ last' = IF n.res = "pending"
                     THEN NoRet
                     ELSE [Ret("signIn", 0, n.res = "resolved",
                               IF usr.pc = "si_signIn" THEN reply ELSE "signedIn",
                               n.to)
                             EXCEPT !.threw = (n.res = "rejected"),
                                    !.user = usr.user,
                                    !.url = <<returnUrl>>,
                                    !.pre = (sessionRefreshTimer = "sub")]
  /\ UNCHANGED << login, initWait, isAuthenticatedSubject, currentUserSubject,
                  isInitialized, init, bootCheck, cbs, isRefreshing,
                  refreshTokenSubject, curRefresher, reqs, forced, guard >>

\* setReturnUrl(url).
SetReturnUrl(url) ==
  /\ returnUrl' = url
  /\ last' = [Ret("setReturnUrl", 0, TRUE, "none", "none") EXCEPT !.url = <<url>>]
  /\ UNCHANGED << login, initWait, authState, isAuthenticatedSubject,
                  currentUserSubject, isInitialized, init, bootCheck,
                  sessionRefreshTimer, liveTimers, cbs, isRefreshing,
                  refreshTokenSubject, curRefresher, reqs, forced, usr,
                  guard, nav >>

\* clearAuthState(): reset the record, cancel the timer.
ClearAuthState ==
  /\ authState' = updateAuthState(authState.isLoading, FALSE, "null", "null")
  /\ sessionRefreshTimer' = clearSessionTimer(sessionRefreshTimer, liveTimers)[1]
  /\ liveTimers' = clearSessionTimer(sessionRefreshTimer, liveTimers)[2]
  /\ last' = Ret("clearAuthState", 0, TRUE, "none", "none")
  /\ UNCHANGED << login, returnUrl, initWait, isAuthenticatedSubject,
                  currentUserSubject, isInitialized, init, bootCheck, cbs,
                  isRefreshing, refreshTokenSubject, curRefresher, reqs,
                  forced, usr, guard, nav >>

\* The account operations: each awaits one provider call.
AccountOps ==
  { "signUp", "confirmSignUp", "resendConfirmationCode", "resetPassword",
    "confirmPasswordReset" }

\* The operations that wrap their provider call in setLoading(true) ...
\* finally setLoading(false); resendConfirmationCode() does not.
LoadingOps == AccountOps \ {"resendConfirmationCode"}

\* Mutant of accountOperation: the provider's failure is not rethrown.
accountOperationSwallow(op, st, ok, error) ==
  LET caught == IF ok THEN st ELSE handleAuthError(st, errorKind(error))
  IN [st |-> IF op \in LoadingOps THEN setLoading(caught, FALSE) ELSE caught,
      threw |-> FALSE]

\* An account operation from the completion of its provider call to its
\* exit: ok when the provider resolved, else error is what it rejected
\* with; catch { handleAuthError; throw } and finally { setLoading(false) }.
accountOperation(op, st, ok, error) ==
  LET caught == IF ok THEN st ELSE handleAuthError(st, errorKind(error))
  IN [st |-> IF op \in LoadingOps THEN setLoading(caught, FALSE) ELSE caught,
      threw |-> ~ok]

\* The UI calls an account operation, which awaits the provider.
AccountCall(op) ==
  /\ usr.pc = "idle"
  /\ usr' = [usr EXCEPT !.pc = op]
  /\ authState' = IF op \in LoadingOps THEN setLoading(authState, TRUE)
                                        ELSE authState
  /\ last' = NoRet
  /\ UNCHANGED << login, returnUrl, initWait, isAuthenticatedSubject,
                  currentUserSubject, isInitialized, init, bootCheck,
                  sessionRefreshTimer, liveTimers, cbs, isRefreshing,
                  refreshTokenSubject, curRefresher, reqs, forced, guard,
                  nav >>

\* The provider resolves the call of the account operation in flight.
AccountResolve ==
  /\ usr.pc \in AccountOps
  /\ usr' = IdleTask
  /\ authState' = accountOperation(usr.pc, authState, TRUE, NoError).st
  /\ last' = [Ret(usr.pc, 0, TRUE, "none", "none")
                EXCEPT !.threw = accountOperation(usr.pc, authState, TRUE,
                                                  NoError).threw]
  /\ UNCHANGED << login, returnUrl, initWait, isAuthenticatedSubject,
                  currentUserSubject, isInitialized, init, bootCheck,
                  sessionRefreshTimer, liveTimers, cbs, isRefreshing,
                  refreshTokenSubject, curRefresher, reqs, forced, guard,
                  nav >>

\* The provider rejects the call of the account operation in flight.
AccountReject(error) ==
  /\ usr.pc \in AccountOps
  /\ usr' = IdleTask
  /\ authState' = accountOperation(usr.pc, authState, FALSE, error).st
  /\ last' = [Ret(usr.pc, 0, FALSE, "none", "none")
                EXCEPT !.threw = accountOperation(usr.pc, authState, FALSE,
                                                  error).threw,
                       !.err = error]
  /\ UNCHANGED << login, returnUrl, initWait, isAuthenticatedSubject,
                  currentUserSubject, isInitialized, init, bootCheck,
                  sessionRefreshTimer, liveTimers, cbs, isRefreshing,
                  refreshTokenSubject, curRefresher, reqs, forced, guard,
                  nav >>

(* ---------------- logout(), setAuthenticated(), login page -------------- *)

\* Mutant of logout: the provider's failure is passed on.
logoutRethrow(subjects, reply) ==
  IF reply = "ok"
    THEN [auth |-> FALSE, user |-> "null", to |-> "/landing", threw |-> FALSE]
    ELSE [auth |-> subjects[1], user |-> subjects[2], to |-> "none",
          threw |-> TRUE]

\* logout() from the completion of the provider's signOut() to its exit:
\* the try block and the catch block write the same values.  subjects is
\* the pair of legacy subjects, reply "ok" or the provider's error.
logout(subjects, reply) ==
  [auth |-> FALSE, user |-> "null", to |-> "/landing", threw |-> FALSE]

\* AppComponent.logout() calls logout(), which awaits the provider's
\* signOut().
LogoutCall ==
  /\ usr.pc = "idle"
  /\ usr' = [usr EXCEPT !.pc = "logout"]
  /\ last' = NoRet
  /\ UNCHANGED << login, returnUrl, initWait, authState,
                  isAuthenticatedSubject, currentUserSubject, isInitialized,
                  init, bootCheck, sessionRefreshTimer, liveTimers, cbs,
                  isRefreshing, refreshTokenSubject, curRefresher, reqs,
                  forced, guard, nav >>

LogoutReturn(reply) ==
  /\ usr.pc = "logout"
  /\ reply \in SignOutReplies
  /\ usr' = IdleTask
  /\ LET n == logout(<<isAuthenticatedSubject, currentUserSubject>>, reply) IN
       /\ isAuthenticatedSubject' = n.auth
       /\ currentUserSubject' = n.user
       /\ nav' = IF n.to = "none" THEN nav ELSE n.to
       /\ last' = [Ret("logout", 0, reply = "ok", "none", n.to)
                     EXCEPT !.threw = n.threw]
  /\ UNCHANGED << login, returnUrl, initWait, authState, isInitialized,
                  init, bootCheck, sessionRefreshTimer, liveTimers, cbs,
                  isRefreshing, refreshTokenSubject, curRefresher, reqs,
                  forced, guard >>

\* setAuthenticated(user): the values written to the legacy subjects.
setAuthenticated(user) == <<TRUE, user>>

\* What the provider may answer to LoginComponent's getCurrentUser().
LoginReplies == Users \cup {"none", "fail"}

\* Mutant of checkCurrentAuthStatus: the spinner is stopped in every case.
checkCurrentAuthStatusStop(l, reply) ==
  IF reply \in Users
    THEN [l |-> [l EXCEPT !.isRedirecting = TRUE, !.isCheckingAuth = FALSE],
          user |-> reply, to |-> "/auth"]
    ELSE [l |-> [l EXCEPT !.isCheckingAuth = FALSE],
          user |-> "null", to |-> "none"]

\* checkCurrentAuthStatus() from the completion of getCurrentUser() to its
\* exit.  user: the identity handed to setAuthenticated ("null": no call);
\* to: the navigation target.  finally: isCheckingAuth is cleared unless
\* isRedirecting.
checkCurrentAuthStatus(l, reply) ==
  IF reply \in Users
    THEN [l |-> [l EXCEPT !.isRedirecting = TRUE],
          user |-> reply, to |-> "/auth"]
    ELSE [l |-> [l EXCEPT !.isCheckingAuth =
                            IF l.isRedirecting THEN @ ELSE FALSE],
          user |-> "null", to |-> "none"]

\* The login page is opened: ngOnInit() awaits checkCurrentAuthStatus(),
\* which awaits getCurrentUser().
LoginInit ==
  /\ login.pc = "none"
  /\ login' = [login EXCEPT !.pc = "check"]
  /\ last' = NoRet
  /\ UNCHANGED << returnUrl, initWait, authState, isAuthenticatedSubject,
                  currentUserSubject, isInitialized, init, bootCheck,
                  sessionRefreshTimer, liveTimers, cbs, isRefreshing,
                  refreshTokenSubject, curRefresher, reqs, forced, usr,
                  guard, nav >>

\* getCurrentUser() answers; checkCurrentAuthStatus() returns and ngOnInit()
\* subscribes to the authenticator.
LoginCheckReturn(reply) ==
  /\ login.pc = "check"
  /\ reply \in LoginReplies
  /\ LET n == checkCurrentAuthStatus(login, reply) IN
       /\ login' = [n.l EXCEPT !.pc = "subscribed"]
       /\ isAuthenticatedSubject' =
            IF n.user = "null" THEN isAuthenticatedSubject
                               ELSE setAuthenticated(n.user)[1]
       /\ currentUserSubject' =
            IF n.user = "null" THEN currentUserSubject
                               ELSE setAuthenticated(n.user)[2]
       /\ nav' = IF n.to = "none" THEN nav ELSE n.to
       /\ last' = [Ret("checkCurrentAuthStatus", 0, reply \in Users,
                       IF reply \in Users THEN "user" ELSE reply, n.to)
                     EXCEPT !.user = n.user]
  /\ UNCHANGED << returnUrl, initWait, authState, isInitialized, init,
                  bootCheck, sessionRefreshTimer, liveTimers, cbs,
                  isRefreshing, refreshTokenSubject, curRefresher, reqs,
                  forced, usr, guard >>

\* The statuses the authenticator reports to its subscribers.
AuthStatuses == {"configuring", "authenticated", "unauthenticated"}

\* The callback ngOnInit() subscribes to the authenticator, on a state
\* with authStatus status and user user.
authenticatorCallback(l, status, user) ==
  IF status = "authenticated"
    THEN [l |-> [l EXCEPT !.isRedirecting = TRUE], user |-> user,
          to |-> "/auth"]
    ELSE [l |-> l, user |-> "null", to |-> "none"]

\* The authenticator reports a state to the subscribed callback.
AuthenticatorEvent(status, user) ==
  /\ login.pc = "subscribed"
  /\ LET n == authenticatorCallback(login, status, user) IN
       /\ login' = n.l
       /\ isAuthenticatedSubject' =
            IF n.user = "null" THEN isAuthenticatedSubject
                               ELSE setAuthenticated(n.user)[1]
       /\ currentUserSubject' =
            IF n.user = "null" THEN currentUserSubject
                               ELSE setAuthenticated(n.user)[2]
       /\ nav' = IF n.to = "none" THEN nav ELSE n.to
       /\ last' = [Ret("authenticator", 0, status = "authenticated", status,
                       n.to)
                     EXCEPT !.user = n.user]
  /\ UNCHANGED << returnUrl, initWait, authState, isInitialized, init,
                  bootCheck, sessionRefreshTimer, liveTimers, cbs,
                  isRefreshing, refreshTokenSubject, curRefresher, reqs,
                  forced, usr, guard >>

\* The router asks canActivate() about a navigation to url; canActivate()
\* calls checkAuthStatus(), which awaits getCurrentUser().
CanActivateCall(url) ==
  /\ guard.pc = "idle"
  /\ guard' = [pc |-> "check", url |-> url]
  /\ last' = NoRet
  /\ UNCHANGED << login, returnUrl, initWait, authState, isAuthenticatedSubject, currentUserSubject,
                  isInitialized, init, bootCheck, sessionRefreshTimer,
                  liveTimers, cbs, isRefreshing, refreshTokenSubject,
                  curRefresher, reqs, forced, usr, nav >>

\* Mutant of canActivate: access is denied without redirecting.
canActivateNoRedirect(isAuthenticated) ==
  [verdict |-> isAuthenticated, to |-> "none"]

\* Mutant of canActivate: every navigation is denied.
canActivateDenyAll(isAuthenticated) == [verdict |-> FALSE, to |-> "/login"]

\* canActivate() on the boolean checkAuthStatus() resolved to: the verdict
\* and the navigation it triggers.
canActivate(isAuthenticated) ==
  IF ~isAuthenticated
    THEN [verdict |-> FALSE, to |-> "/login"]
    ELSE [verdict |-> TRUE, to |-> "none"]

\* checkAuthStatus() returns to canActivate(), which returns its verdict
\* (a rejection of checkAuthStatus() would pass through canActivate()).
CanActivateReturn(reply) ==
  /\ guard.pc = "check"
  /\ guard' = IdleGuard
  /\ LET s == checkAuthStatus(reply)
         g == IF s.threw THEN [verdict |-> FALSE, to |-> "none"]
                         ELSE canActivate(s.auth)
     IN /\ isAuthenticatedSubject' = s.auth
        /\ currentUserSubject' = s.user
        /\ nav' = IF g.to = "none" THEN nav ELSE g.to
        /\ last' = [Ret("canActivate", 0, g.verdict, reply, g.to)
                      EXCEPT !.url = <<guard.url>>, !.threw = s.threw]
  /\ UNCHANGED << login, returnUrl, initWait, authState, isInitialized, init, bootCheck,
                  sessionRefreshTimer, liveTimers, cbs, isRefreshing,
                  refreshTokenSubject, curRefresher, reqs, forced, usr >>

(* --------------------------- specifications ---------------------------- *)

\* The service's start-up: the two calls the constructor left pending.
Startup ==
  \/ \E reply \in Users \cup {"fail"} : BootCheckReturn(reply)
  \/ \E reply \in Users \cup Expiries \cup {"none", "fail"} : InitializeAuthStep(reply)

\* The refresh timer and its callbacks.
Timer ==
  \/ \E c \in Cbs : TimerFire(c)
  \/ \E c \in Cbs, reply \in Users \cup Expiries \cup {"tokens", "notokens", "fail"} :
       TimerRefreshStep(c, reply)
  \/ \E c \in Cbs, reply \in SignOutReplies : TimerSignOutReturn(c, reply)

\* Requests passing through the interceptor.
Interceptor ==
  \/ \E r \in Reqs, url \in Urls : Intercept(r, url)
  \/ \E r \in Reqs, reply \in AccessTokenReplies : AccessTokenReply(r, reply)
  \/ \E r \in Reqs, status \in Statuses : PlainResponse(r, status)
  \/ \E r \in Reqs, status \in Statuses : Response(r, status)
  \/ \E r \in Reqs, reply \in Users \cup Expiries \cup {"tokens", "notokens", "fail"} :
       ReqRefreshStep(r, reply)
  \/ \E r \in Reqs, reply \in AccessTokenReplies : ReqRefreshToken(r, reply)
  \/ \E r \in Reqs, status \in Statuses : RetryResponse(r, status)
  \/ \E r \in Reqs, status \in Statuses : WaiterRetryResponse(r, status)
  \/ \E reply \in SignOutReplies : ForcedSignOutReturn(reply)

\* Calls made by the UI.
Ui ==
  \/ UserSignOut
  \/ \E reply \in SignOutReplies : UserSignOutReturn(reply)

\* The route guard.
Guard ==
  \/ \E url \in GuardedUrls : CanActivateCall(url)
  \/ \E reply \in Users \cup {"fail"} : CanActivateReturn(reply)

\* Sign-in, the return-URL slot and clearAuthState().
SignIn ==
  \/ UserSignIn
  \/ \E reply \in {"signedIn", "fail"} \cup SignInSteps \cup ProviderErrors
                      \cup Users \cup Expiries : UserSignInStep(reply)
  \/ \E url \in GuardedUrls : SetReturnUrl(url)
  \/ ClearAuthState

\* logout() called from the navigation bar.
Logout ==
  \/ LogoutCall
  \/ \E reply \in SignOutReplies : LogoutReturn(reply)

\* The login page.
Login ==
  \/ LoginInit
  \/ \E reply \in LoginReplies : LoginCheckReturn(reply)
  \/ \E status \in AuthStatuses, user \in Users : AuthenticatorEvent(status, user)

\* The account operations.
Account ==
  \/ \E op \in AccountOps : AccountCall(op)
  \/ AccountResolve
  \/ \E error \in ErrorObjects : AccountReject(error)

Next ==
  \/ Startup \/ Timer \/ Interceptor \/ Ui \/ Guard
  \/ WaitForInitializationCall \/ SignIn \/ Account \/ Logout \/ Login

Spec == Init /\ [][Next]_vars

\* The interceptor with the service's start-up.
NextInterceptor ==
  \/ \E reply \in Users \cup Expiries \cup {"none", "fail"} : InitializeAuthStep(reply)
  \/ Interceptor

SpecInterceptor == Init /\ [][NextInterceptor]_vars

\* The two sources of refreshSession() calls: timer and interceptor.
NextRefresh ==
  \/ \E reply \in Users \cup Expiries \cup {"none", "fail"} : InitializeAuthStep(reply)
  \/ Timer
  \/ Interceptor

SpecRefresh == Init /\ [][NextRefresh]_vars

\* The service on its own: start-up, timer and the UI's calls.
NextService == Startup \/ Timer \/ Ui

SpecService == Init /\ [][NextService]_vars

\* The service on its own, with a timer whose due firings are run by the
\* event loop.
SpecTimer ==
  /\ Init
  /\ [][NextService]_vars
  /\ WF_vars(\E c \in Cbs : TimerFire(c))

\* The guard with the service's start-up.
NextGuard == Startup \/ Guard

SpecGuard == Init /\ [][NextGuard]_vars

\* The provider's answers to signIn() explored together with the timer:
\* completion, one intermediate step, one failure, and the answers to the
\* awaits that follow a completion.
SessionSignInReplies ==
  {"signedIn", "CONFIRM_SIGN_UP", "NotAuthorizedException", "fail"}
    \cup Users \cup Expiries

\* The operations that write the Session record, interleaved:
\* initialization, timer refresh, sign-in, sign-out and clearAuthState().
NextSession ==
  \/ \E reply \in Users \cup Expiries \cup {"none", "fail"} : InitializeAuthStep(reply)
  \/ Timer
  \/ Ui
  \/ UserSignIn
  \/ \E reply \in SessionSignInReplies : UserSignInStep(reply)
  \/ ClearAuthState

SpecSession == Init /\ [][NextSession]_vars

\* Sign-in, sign-out and the return-URL slot after start-up.
NextSignIn ==
  \/ \E reply \in Users \cup Expiries \cup {"none", "fail"} : InitializeAuthStep(reply)
  \/ Ui
  \/ SignIn

SpecSignIn == Init /\ [][NextSignIn]_vars

\* Every provider call site of the service that the UI reaches: sign-in,
\* sign-out and the account operations, after start-up.
NextAccount ==
  \/ \E reply \in Users \cup Expiries \cup {"none", "fail"} : InitializeAuthStep(reply)
  \/ Ui
  \/ UserSignIn
  \/ \E reply \in {"signedIn", "fail"} \cup SignInSteps \cup ProviderErrors
                      \cup Users \cup Expiries : UserSignInStep(reply)
  \/ Account

SpecAccount == Init /\ [][NextAccount]_vars

\* The guard with the service's start-up and the refresh timer.
NextGuardRefresh == Startup \/ Guard \/ Timer

SpecGuardRefresh == Init /\ [][NextGuardRefresh]_vars

\* The legacy subjects and their writers: start-up, logout() and the login
\* page, with start-up and sign-out writing the Session record.
NextLegacy ==
  \/ Startup
  \/ Logout
  \/ Login
  \/ Ui

SpecLegacy == Init /\ [][NextLegacy]_vars

\* Start-up with callers of waitForInitialization(); the provider answers
\* every call of initializeAuth() eventually.
NextInit == Startup \/ WaitForInitializationCall

SpecInit ==
  /\ Init
  /\ [][NextInit]_vars
  /\ WF_vars(\E reply \in Users \cup Expiries \cup {"none", "fail"} :
                InitializeAuthStep(reply))

(* ------------------------------ claims --------------------------------- *)

\* The interceptor's refreshSession() calls in flight (the call itself, then
\* the getAccessToken() that refreshToken() chains to it).
Refreshers == {r \in Reqs : reqs[r].pc \in {"refresh", "rf_token"}}

\* The requests suspended on refreshTokenSubject.
Waiters == {r \in Reqs : reqs[r].pc = "waiting"}

\* C1: requests that receive a 401 concurrently share one refreshSession()
\* call and its outcome: the interceptor never has two refreshes in flight;
\* when the refresher's refresh yields a token, every request of its round
\* is retried with that token; when it fails, every request of its round
\* has failed (none is left suspended).
C1_OneRefreshOneOutcome ==
  /\ Cardinality(Refreshers) <= 1
  /\ (last.op = "refreshed" /\ last.res \in Tokens) =>
       \A q \in Reqs : reqs[q].joined = last.id =>
         /\ reqs[q].pc \in {"retry", "wretry"}
         /\ reqs[q].hdr = <<"Bearer", last.res>>
  /\ ((last.op = "refreshed" /\ last.res \notin Tokens) \/ last.op = "refreshRejected") =>
       \A q \in Reqs : reqs[q].joined # last.id

\* C2: at most one refreshSession() call is in flight, whether it was
\* started by a timer callback or by the interceptor.
C2_AtMostOneRefreshInFlight ==
  Cardinality({c \in Cbs : cbs[c].pc \in RefreshPcs})
    + Cardinality({r \in Reqs : reqs[r].pc = "refresh"}) <= 1

\* C3: no waiter stays suspended forever: whenever a request is suspended
\* on the rendezvous slot, the system can still take a step (so a state in
\* which nothing can happen any more holds no suspended request).
C3_NoWaiterSuspendedForever ==
  Waiters # {} => ENABLED NextInterceptor

\* C4: after signOut() returns the Session record is the unauthenticated
\* default (isAuthenticated false, user absent, sessionExpiry absent),
\* whether the provider's sign-out succeeded or failed.
C4_SignOutResetsSession ==
  last.op = "signOut" =>
    /\ ~authState.isAuthenticated
    /\ authState.user = "null"
    /\ authState.sessionExpiry = "null"

\* C5: on every exit of signOut() the refresh timer is cancelled,
\* navigation to the login page has been signalled and isLoading is cleared.
C5_SignOutCancelsTimerAndNavigates ==
  last.op = "signOut" =>
    /\ sessionRefreshTimer = "undefined"
    /\ liveTimers = 0
    /\ last.to = "/login"
    /\ ~authState.isLoading

\* C6: a request is handed to the backend at most twice; a refresh or a
\* suspension happens only after the first attempt, never after a retry;
\* a 401 answering the retry ends the request as failed, on the refresher
\* path and on the waiter path.
C6_AtMostOneRetry ==
  /\ \A r \in Reqs : reqs[r].sends <= 2
  /\ \A r \in Reqs : reqs[r].pc \in {"refresh", "rf_token", "waiting"} => reqs[r].sends = 1
  /\ \A r \in Reqs : reqs[r].pc \in {"retry", "wretry"} => reqs[r].sends = 2
  /\ (last.op \in {"retryResponse", "waiterRetryResponse"} /\ last.res = "401") =>
       reqs[last.id].pc = "failed"

\* C6 witness: a retried request was answered 401 and has failed.
C6_Witness ==
  /\ last.op = "waiterRetryResponse"
  /\ last.res = "401"
  /\ reqs[last.id].pc = "failed"

\* C7: a 401 that arrives while isRefreshing is false raises the flag,
\* clears the slot and calls refreshSession(); a refresh that yields a token
\* retries the request with it (its second and last attempt); a refresh
\* that fails ends the request as failed with signOut() called; in each case
\* the flag is false when the refresh has completed.
C7_RefresherBranch ==
  /\ (last.op = "response" /\ last.res = "401" /\ ~last.pre) =>
       /\ isRefreshing
       /\ refreshTokenSubject = "null"
       /\ reqs[last.id].pc = "refresh"
       /\ reqs[last.id].t.pc = "rf_session"
  /\ (last.op = "refreshed" /\ last.res \in Tokens) =>
       /\ reqs[last.id].pc = "retry"
       /\ reqs[last.id].hdr = <<"Bearer", last.res>>
       /\ reqs[last.id].sends = 2
       /\ ~isRefreshing
  /\ ((last.op = "refreshed" /\ last.res \notin Tokens) \/ last.op = "refreshRejected") =>
       /\ reqs[last.id].pc = "failed"
       /\ forced >= 1
       /\ authState.isLoading
       /\ ~isRefreshing

\* C7 witness: a refresh started by a 401 rejected, and sign-out was forced.
C7_Witness ==
  /\ last.op = "refreshRejected"
  /\ reqs[last.id].pc = "failed"
  /\ forced >= 1

\* The URL contains an entry of the exclusion list.
MatchesExclusionList(url) ==
  \E e \in excludedUrls :
    \E i \in 1..Len(url) :
      i + Len(e) - 1 <= Len(url) /\ SubSeq(url, i, i + Len(e) - 1) = e

\* C8: a request to an excluded URL is forwarded at once without an
\* Authorization header, and a request forwarded that way never gets one.
C8_ExcludedNeverBearer ==
  /\ (last.op = "intercept" /\ MatchesExclusionList(last.url)) =>
       /\ reqs[last.id].pc = "plain"
       /\ reqs[last.id].hdr = <<>>
       /\ reqs[last.id].sends = 1
  /\ \A r \in Reqs : reqs[r].pc = "plain" => reqs[r].hdr = <<>>

\* C8 witness: an excluded URL was intercepted while authenticated.
C8_Witness ==
  /\ last.op = "intercept"
  /\ MatchesExclusionList(last.url)
  /\ authState.isAuthenticated
  /\ reqs[last.id].pc = "plain"

\* C9: a request to a URL not excluded is forwarded with exactly the token
\* getAccessToken() yielded as its Bearer header when the Session is
\* authenticated, and without any header when the Session is
\* unauthenticated or the token fetch yields none or fails.
C9_BearerIffAuthenticatedToken ==
  /\ (last.op = "forward") =>
       /\ reqs[last.id].pc = "sent"
       /\ reqs[last.id].sends = 1
       /\ reqs[last.id].hdr =
            IF last.res \in Tokens THEN <<"Bearer", last.res>> ELSE <<>>
  /\ (last.op = "intercept" /\ ~MatchesExclusionList(last.url)) =>
       IF authState.isAuthenticated
         THEN reqs[last.id].pc = "token" /\ reqs[last.id].sends = 0
         ELSE /\ reqs[last.id].pc = "plain"
              /\ reqs[last.id].hdr = <<>>
              /\ reqs[last.id].sends = 1

\* C9 witness: the token fetch failed and the request was still forwarded.
C9_Witness ==
  /\ last.op = "forward"
  /\ last.res = "fail"
  /\ reqs[last.id].pc = "sent"

\* C10: canActivate() returns what the status check returned; it triggers
\* no navigation when that is true and navigates to /login when it is false.
C10_GuardFollowsStatusCheck ==
  last.op = "canActivate" =>
    /\ last.ok = isAuthenticatedSubject
    /\ (last.res \in Users) = isAuthenticatedSubject
    /\ last.ok => last.to = "none"
    /\ ~last.ok => (last.to = "/login" /\ nav = "/login")

\* C10 witness: the status check returned false and the guard redirected.
C10_Witness ==
  /\ last.op = "canActivate"
  /\ ~isAuthenticatedSubject
  /\ ~last.ok
  /\ nav = "/login"

\* C11: when the guard denies a navigation it has stored the attempted URL
\* as the return URL; when it permits one the Session record is unchanged.
C11_GuardRecordsReturnUrl ==
  (last.op = "canActivate" /\ ~last.ok) => <<returnUrl>> = last.url

\* C12: canActivate() produces no verdict while the service's start-up
\* identity check is unfinished.
C12_GuardAwaitsInitialization ==
  last.op = "canActivate" => isInitialized

\* C13 (state part): waitForInitialization() never rejects, resolves only
\* when initializeAuth() has finished and written the Session, and callers
\* are suspended only while initializeAuth() is unfinished.
C13_ResolvedOnlyWhenInitialized ==
  /\ last.op = "waitForInitialization" =>
       /\ ~last.threw
       /\ isInitialized
       /\ init.pc = "done"
       /\ initWait = 0
  /\ initWait > 0 => ~isInitialized

\* C13: waitForInitialization() never rejects; a call made before the
\* start-up identity check finished resolves only after it, a call made
\* after it resolves at once; when the provider answers, initialization
\* completes (identity found, none, or failure) and every suspended caller
\* is resumed.
C13_WaitForInitialization ==
  /\ []C13_ResolvedOnlyWhenInitialized
  /\ <>isInitialized
  /\ (initWait > 0) ~> (initWait = 0)

\* C13 witness: a caller that was suspended is resumed by the end of
\* initializeAuth().
C13_Witness ==
  /\ last.op = "waitForInitialization"
  /\ last.res = "awaited"
  /\ isInitialized

\* C14: checkAuthStatus() never raises; it resolves to true exactly when the
\* provider returned an identity and to false when the identity fetch failed.
C14_CheckAuthStatusNeverRaises ==
  last.op \in {"checkAuthStatus", "canActivate"} =>
    /\ ~last.threw
    /\ last.ok \in BOOLEAN
    /\ last.ok <=> (last.res \in Users)
    /\ last.res = "fail" => ~last.ok

\* C14 witness: the identity fetch of a status check failed and the check
\* resolved to false.
C14_Witness ==
  /\ last.op = "checkAuthStatus"
  /\ last.res = "fail"
  /\ ~last.ok
  /\ ~last.threw

\* C15: after checkAuthStatus() resolves true the Session record is
\* authenticated with the returned identity and no error; after it resolves
\* false the Session record is unauthenticated with no user, no expiry and
\* no error.
C15_StatusCheckUpdatesSession ==
  last.op \in {"checkAuthStatus", "canActivate"} =>
    IF last.ok
      THEN /\ authState.isAuthenticated
           /\ authState.user = last.res
           /\ authState.error = "null"
      ELSE /\ ~authState.isAuthenticated
           /\ authState.user = "null"
           /\ authState.sessionExpiry = "null"
           /\ authState.error = "null"

\* C16: in every state of the Session record, isAuthenticated implies a user
\* is present, and not isAuthenticated implies that user and sessionExpiry
\* are absent.
C16_SessionRecordConsistent ==
  /\ authState.isAuthenticated => authState.user \in Users
  /\ ~authState.isAuthenticated =>
       (authState.user = "null" /\ authState.sessionExpiry = "null")

\* C16 witness: a refresh by the timer is about to write the record while
\* the Session is authenticated with an expiry and a sign-out is in flight.
C16_Witness ==
  /\ authState.isAuthenticated
  /\ authState.user \in Users
  /\ authState.sessionExpiry # "null"
  /\ usr.pc = "signout"
  /\ \E c \in Cbs : cbs[c].pc = "rf_expiry"

\* C17: at most one refresh timer is subscribed in every state, and the
\* service's timer field refers to it.
C17_AtMostOneTimer ==
  /\ liveTimers <= 1
  /\ (sessionRefreshTimer = "sub") <=> (liveTimers = 1)

\* C17 witness: a completed sign-in restarted the timer while the previous
\* one was still subscribed, and one timer is subscribed.
C17_Witness ==
  /\ last.op = "signIn"
  /\ last.res = "signedIn"
  /\ last.ok
  /\ last.pre
  /\ liveTimers = 1

\* C18 (state part): a firing comes from a subscribed timer and invokes
\* refreshSession(); a firing whose refreshSession() rejected has called
\* signOut(); a cancelled timer cannot fire; a subscribed timer can fire
\* again whenever a callback can be started.
C18_TimerFiringState ==
  /\ last.op = "timerFire" =>
       (liveTimers > 0 /\ cbs[last.id] = StartRefresh)
  /\ last.op = "timerRefreshRejected" =>
       /\ cbs[last.id].pc = "signout"
       /\ authState.isLoading
       /\ ~authState.isAuthenticated
  /\ liveTimers = 0 => ~ENABLED (\E c \in Cbs : TimerFire(c))
  /\ (liveTimers > 0 /\ \E c \in Cbs : cbs[c].pc = "idle") =>
       ENABLED (\E c \in Cbs : TimerFire(c))

\* C18: the timer started at service start or by a sign-in fires (at once
\* the first time, then again and again) until it is cancelled; each firing
\* invokes refreshSession(), and a firing whose refreshSession() fails is
\* followed by a forced signOut().
C18_TimerFires ==
  /\ []C18_TimerFiringState
  /\ (liveTimers > 0 /\ \A c \in Cbs : cbs[c].pc = "idle")
       ~> (liveTimers = 0 \/ \E c \in Cbs : cbs[c].pc = "rf_session")

\* C18 witness: the refreshSession() of a firing rejected and the callback
\* has called signOut().
C18_Witness ==
  /\ last.op = "timerRefreshRejected"
  /\ cbs[last.id].pc = "signout"
  /\ authState.isLoading

\* C19: a forced sign-out (after a refresh failure in a timer callback or
\* in the interceptor) ends with an unauthenticated Session and a redirect
\* to the login page, and without a rejection nobody handles.
C19_ForcedSignOutNeverRejects ==
  (last.op = "signOut" /\ last.res \in {"timer", "interceptor"}) =>
    /\ last.ok
    /\ last.to = "/login"
    /\ ~authState.isAuthenticated

\* C20: when the provider reports the sign-in complete and signIn() returns,
\* the Session is authenticated with the re-fetched identity and no error,
\* navigation went to the stored return URL (the default when none was
\* stored), the slot is consumed, and exactly one timer is subscribed.
C20_SignInComplete ==
  (last.op = "signIn" /\ last.res = "signedIn" /\ ~last.threw) =>
    /\ authState.isAuthenticated
    /\ last.user \in Users
    /\ authState.user = last.user
    /\ authState.error = "null"
    /\ last.to = IF last.url = <<"null">> THEN "/dashboard" ELSE last.url[1]
    /\ nav = last.to
    /\ returnUrl = "null"
    /\ sessionRefreshTimer = "sub"
    /\ liveTimers = 1

\* C20 witness: a completed sign-in navigated to a stored return URL.
C20_Witness ==
  /\ last.op = "signIn"
  /\ last.res = "signedIn"
  /\ last.ok
  /\ last.url # <<"null">>
  /\ nav = last.url[1]
  /\ authState.isAuthenticated

\* The steps of signIn(): its call, and its exit with the provider's answer
\* to signIn() recorded in last'.res.
SignInCalled == usr.pc = "idle" /\ usr'.pc = "si_signIn"

SignInExits == usr.pc \in {"si_signIn", "si_user", "si_expiry"} /\ usr'.pc = "idle"

\* C21: when the provider answers signIn() with one of the three
\* intermediate steps, signIn() leaves isAuthenticated, user and error as
\* they were, leaves the timer alone, and navigates to the flow of that step.
C21_IntermediateStepFrame ==
  [][ /\ SignInCalled =>
           /\ authState'.isAuthenticated = authState.isAuthenticated
           /\ authState'.user = authState.user
           /\ authState'.error = authState.error
           /\ sessionRefreshTimer' = sessionRefreshTimer
           /\ liveTimers' = liveTimers
      /\ (SignInExits /\ last'.res \in
            {"CONFIRM_SIGN_UP", "RESET_PASSWORD",
             "CONFIRM_SIGN_IN_WITH_NEW_PASSWORD_REQUIRED"}) =>
           /\ authState'.isAuthenticated = authState.isAuthenticated
           /\ authState'.user = authState.user
           /\ authState'.error = authState.error
           /\ sessionRefreshTimer' = sessionRefreshTimer
           /\ liveTimers' = liveTimers
           /\ ~last'.threw
           /\ last'.to = nav'
           /\ nav' = CASE last'.res = "CONFIRM_SIGN_UP" -> "/auth/confirm?step=signup"
                       [] last'.res = "RESET_PASSWORD" -> "/auth/reset-password"
                       [] OTHER -> "/auth/new-password"
    ]_vars

\* C21 witness: signIn() ended in the password-reset step, navigated to
\* that flow, and the Session is still unauthenticated.
C21_Witness ==
  /\ last.op = "signIn"
  /\ last.res = "RESET_PASSWORD"
  /\ nav = "/auth/reset-password"
  /\ ~authState.isAuthenticated
  /\ authState.error = "null"

\* C22: when the provider's sign-in call fails, signIn() sets Session.error
\* to a message, leaves isAuthenticated and user as they were and rethrows;
\* on every exit of signIn() (failure, success, intermediate step)
\* isLoading is cleared.
C22_SignInFailure ==
  [][ /\ (SignInExits /\ last'.res \in ProviderErrors) =>
           /\ authState'.error # "null"
           /\ authState'.isAuthenticated = authState.isAuthenticated
           /\ authState'.user = authState.user
           /\ last'.threw
           /\ ~last'.ok
      /\ SignInExits => (last'.op = "signIn" /\ ~authState'.isLoading)
    ]_vars

\* C22 witness: a sign-in rejected for wrong credentials has exited with the
\* message set and isLoading cleared.
C22_Witness ==
  /\ last.op = "signIn"
  /\ last.res = "NotAuthorizedException"
  /\ last.threw
  /\ authState.error = "Invalid email or password."
  /\ ~authState.isLoading

\* The Session record is unauthenticated with no user, expiry or error.
SessionReset(st) ==
  /\ ~st.isAuthenticated
  /\ st.user = "null"
  /\ st.sessionExpiry = "null"
  /\ st.error = "null"

\* C23: refreshSession() with valid tokens re-fetches the identity and
\* makes the Session authenticated with it and a freshly computed expiry;
\* with no tokens it resets the Session and resolves; when a provider call
\* fails it resets the Session and then rejects.
C23_RefreshSessionOutcomes ==
  [][ \A c \in Cbs :
        /\ (cbs[c].pc = "rf_session" /\ cbs'[c].pc = "rf_user") =>
             authState' = authState
        /\ (cbs[c].pc = "rf_expiry" /\ cbs'[c] # cbs[c]) =>
             /\ cbs'[c].pc = "rf_check"
             /\ cbs[c].user \in Users
             /\ authState'.isAuthenticated
             /\ authState'.user = cbs[c].user
             /\ authState'.sessionExpiry \in Expiries
             /\ authState'.error = "null"
        /\ (cbs[c].pc = "rf_session" /\ cbs'[c].pc = "idle") =>
             (SessionReset(authState') /\ last'.op # "timerRefreshRejected")
        /\ (cbs[c].pc \in {"rf_session", "rf_user"} /\ cbs'[c].pc = "signout") =>
             (SessionReset(authState') /\ last'.op = "timerRefreshRejected")
        /\ (cbs[c].pc = "rf_check" /\ cbs'[c] # cbs[c]) =>
             (cbs'[c].pc = "idle" /\ authState' = authState)
    ]_vars

\* C23 witness: a refresh with valid tokens has written the authenticated
\* Session with an expiry.
C23_Witness ==
  \E c \in Cbs :
    /\ cbs[c].pc = "rf_check"
    /\ authState.isAuthenticated
    /\ authState.sessionExpiry = "exp"

\* C24: a provider completion that arrives right after a completed
\* signOut(), for an initializeAuth() or refreshSession() call that was
\* already in flight, does not make the Session authenticated again.
C24_NoLateCompletionReauthenticates ==
  [][ ( /\ last.op = "signOut"
        /\ last.ok
        /\ \/ init' # init
           \/ \E c \in Cbs : cbs[c].pc \in RefreshPcs /\ cbs'[c] # cbs[c] )
      => ~authState'.isAuthenticated
    ]_vars

\* C25: once the timer is cancelled and none is subscribed, a callback of
\* the cancelled timer that is still in flight neither changes the Session
\* nor calls signOut().
C25_CancelledTimerCallbackInert ==
  [][ \A c \in Cbs :
        (liveTimers = 0 /\ cbs[c].pc \in RefreshPcs /\ cbs'[c] # cbs[c]) =>
          (authState' = authState /\ cbs'[c].pc # "signout")
    ]_vars

\* C26: isLoading is true whenever the initial check, a sign-in or a
\* session refresh is in flight.
C26_LoadingWhileInFlight ==
  ( \/ init.pc # "done"
    \/ usr.pc \in {"si_signIn", "si_user", "si_expiry"}
    \/ \E c \in Cbs : cbs[c].pc \in RefreshPcs
    \/ \E r \in Reqs : reqs[r].pc = "refresh" )
  => authState.isLoading

\* The kinds the taxonomy names.
KnownKinds ==
  { "UserNotConfirmedException", "NotAuthorizedException",
    "UserNotFoundException", "TooManyRequestsException",
    "LimitExceededException" }

\* The kind an error object reports, in its name or in its code.
ReportedKind(error) ==
  IF error.name \in KnownKinds THEN error.name
  ELSE IF error.code \in KnownKinds THEN error.code
  ELSE "other"

\* C27: an account operation rejected by the provider leaves in
\* Session.error the taxonomy message of the error's kind, whether the kind
\* is reported in the error's name or in its code; every other error gets
\* the generic message.
C27_ErrorMappedByNameOrCode ==
  (last.op \in AccountOps /\ last.threw) =>
    authState.error = userMessage(ReportedKind(last.err))

\* The exit of a call made by the UI whose provider call failed.
ProviderFailed ==
  /\ usr.pc # "idle"
  /\ usr'.pc = "idle"
  /\ \/ last'.op \in AccountOps /\ ~last'.ok
     \/ last'.op = "signOut" /\ last'.err # NoError
     \/ last'.op = "signIn" /\ last'.res \in ProviderErrors

\* C28: when the provider call of signIn, signOut, signUp, confirmSignUp,
\* resendConfirmationCode, resetPassword or confirmPasswordReset fails, the
\* operation sets Session.error to the mapped message, rejects to its
\* caller, and leaves isAuthenticated and user as they were.
C28_CallSitesCatchAndRethrow ==
  [][ ProviderFailed =>
        /\ last'.threw
        /\ authState'.error =
             userMessage(IF last'.op = "signIn" THEN last'.res
                                                ELSE errorKind(last'.err))
        /\ authState'.isAuthenticated = authState.isAuthenticated
        /\ authState'.user = authState.user
    ]_vars

\* C28 witness: resendConfirmationCode() was rejected with a rate-limit
\* error while a user was signed in; the message is set and the call threw.
C28_Witness ==
  /\ last.op = "resendConfirmationCode"
  /\ last.threw
  /\ last.err = [name |-> "LimitExceededException", code |-> ""]
  /\ authState.error = "Attempt limit exceeded. Please try again later."
  /\ authState.isAuthenticated

\* C29: the return URL is one slot.  setReturnUrl(u) leaves u in it whatever
\* it held; the slot changes only by setReturnUrl or by the consume of a
\* completed sign-in; the consume navigates to the slot's content, or to
\* the default "/dashboard" when the slot is empty, and empties the slot.
C29_ReturnUrlSingleSlot ==
  [][ /\ last'.op = "setReturnUrl" => returnUrl' = last'.url[1]
      /\ returnUrl' # returnUrl =>
           \/ last'.op = "setReturnUrl"
           \/ last'.op = "signIn" /\ last'.ok /\ last'.res = "signedIn"
      /\ (usr.pc = "si_expiry" /\ usr'.pc = "idle") =>
           /\ returnUrl' = "null"
           /\ nav' = IF returnUrl = "null" THEN "/dashboard" ELSE returnUrl
    ]_vars

\* C29 witness: a sign-in consumed "/auth/todos" from the slot and left the
\* slot empty.
C29_Witness ==
  /\ last.op = "signIn"
  /\ last.ok
  /\ last.url = <<"/auth/todos">>
  /\ nav = "/auth/todos"
  /\ returnUrl = "null"

\* C30: when the first attempt of a request is answered with an error whose
\* status is not 401, that error is passed to the caller as it is and the
\* request ends failed with that step: it is not sent again, it starts no
\* refreshSession() call, and isRefreshing is what it was.
C30_OtherErrorsSurfaced ==
  (last.op = "response" /\ last.res \notin {"200", "401"}) =>
    /\ last.out = last.res
    /\ reqs[last.id] = Finished("failed")
    /\ isRefreshing = last.pre

\* C30 witness: a request of an authenticated session was answered 500 and
\* failed while no refresh was in flight.
C30_Witness ==
  /\ last.op = "response"
  /\ last.res = "500"
  /\ last.out = "500"
  /\ reqs[last.id].pc = "failed"
  /\ Refreshers = {}
  /\ ~isRefreshing

\* A step of one of the service's transition operations: the status check
\* (at start-up or for the guard), initialization, a call made by the UI
\* (sign-in, sign-out, logout), or a refresh.
TransitionOperationStep ==
  \/ bootCheck' # bootCheck
  \/ init' # init
  \/ usr' # usr
  \/ guard' # guard
  \/ cbs' # cbs
  \/ reqs' # reqs
  \/ forced' # forced

\* C31: the authentication state (the legacy subjects and the Session
\* record's isAuthenticated and user) changes only in steps of the service's
\* transition operations; no step of a page component writes it.
C31_OnlyTransitionOperationsWrite ==
  [][ ( \/ isAuthenticatedSubject' # isAuthenticatedSubject
        \/ currentUserSubject' # currentUserSubject
        \/ authState'.isAuthenticated # authState.isAuthenticated
        \/ authState'.user # authState.user )
      => TransitionOperationStep
    ]_vars

\* C32: logout() never throws; when it has returned, isAuthenticated$ holds
\* false, currentUser$ holds null and /landing was navigated to, whether the
\* provider's sign-out succeeded or failed.
C32_LogoutNeverThrows ==
  last.op = "logout" =>
    /\ ~last.threw
    /\ ~isAuthenticatedSubject
    /\ currentUserSubject = "null"
    /\ last.to = "/landing"
    /\ nav = "/landing"

\* C32 witness: logout() returned after the provider's sign-out failed.
C32_Witness ==
  /\ last.op = "logout"
  /\ ~last.ok
  /\ ~last.threw
  /\ nav = "/landing"
  /\ ~isAuthenticatedSubject

\* C33: when the login page's getCurrentUser() answers with a user, the
\* user is handed to setAuthenticated, /auth is navigated to and
\* isCheckingAuth stays true; when it answers none or fails, isCheckingAuth
\* becomes false, nothing is navigated to and nothing is written to the
\* service; an 'authenticated' event of the authenticator hands its user to
\* setAuthenticated and navigates to /auth.
C33_LoginPageInit ==
  [][ /\ (login.pc = "check" /\ login'.pc = "subscribed" /\ last'.ok) =>
           /\ last'.op = "checkCurrentAuthStatus"
           /\ last'.user \in Users
           /\ isAuthenticatedSubject'
           /\ currentUserSubject' = last'.user
           /\ nav' = "/auth"
           /\ login'.isCheckingAuth
           /\ login'.isRedirecting
      /\ (login.pc = "check" /\ login'.pc = "subscribed" /\ ~last'.ok) =>
           /\ last'.op = "checkCurrentAuthStatus"
           /\ last'.res \in {"none", "fail"}
           /\ ~login'.isCheckingAuth
           /\ nav' = nav
           /\ isAuthenticatedSubject' = isAuthenticatedSubject
           /\ currentUserSubject' = currentUserSubject
      /\ (last'.op = "authenticator" /\ last'.res = "authenticated") =>
           /\ login.pc = "subscribed"
           /\ isAuthenticatedSubject'
           /\ currentUserSubject' = last'.user
           /\ nav' = "/auth"
           /\ login'.isRedirecting
    ]_vars

\* C33 witness: the provider reported none on initialization (spinner
\* stopped), and a later 'authenticated' event navigated to /auth.
C33_Witness ==
  /\ last.op = "authenticator"
  /\ last.res = "authenticated"
  /\ ~login.isCheckingAuth
  /\ login.isRedirecting
  /\ nav = "/auth"
  /\ currentUserSubject = last.user

\* No operation of the service is in flight: start-up has finished, no
\* timer callback, UI call, guard check or interceptor refresh is awaiting
\* the provider, and no forced sign-out is pending.
NoOperationInFlight ==
  /\ init.pc = "done"
  /\ bootCheck = "done"
  /\ usr.pc = "idle"
  /\ guard.pc = "idle"
  /\ login.pc # "check"
  /\ forced = 0
  /\ \A c \in Cbs : cbs[c].pc = "idle"
  /\ \A r \in Reqs : reqs[r].pc \notin {"refresh", "rf_token"}

\* C34: whenever no operation of the service is in flight, isLoading is
\* false.
C34_IdleMeansNotLoading == NoOperationInFlight => ~authState.isLoading

\* The legacy subjects and the Session record report the same
\* authenticated flag and the same user.
RepresentationsAgree ==
  /\ isAuthenticatedSubject = authState.isAuthenticated
  /\ currentUserSubject = authState.user

\* C35: after start-up, a step that is taken with the two representations
\* in agreement and after which nothing is in flight leaves them in
\* agreement.
C35_RepresentationsStayInAgreement ==
  [][ ( /\ init.pc = "done"
        /\ bootCheck = "done"
        /\ RepresentationsAgree
        /\ NoOperationInFlight' )
      => RepresentationsAgree'
    ]_vars

\* C36: the response to a request retried after a successful refresh,
\* whatever its status, ends the request without the interceptor calling
\* signOut().
C36_RetryErrorKeepsSession ==
  [][ \A r \in Reqs :
        (reqs[r].pc \in {"retry", "wretry"} /\ reqs'[r].pc \in {"ok", "failed"})
          => forced' = forced
    ]_vars

\* C37: a request to an excluded URL, or intercepted while the Session is
\* unauthenticated, is forwarded without error handling; a 401 answering a
\* request forwarded that way is passed to the caller as it is and ends the
\* request, with isRefreshing, refreshTokenSubject, the other requests and
\* the Session untouched: no refreshSession() call is made.
C37_No401HandlingWhenNotInjected ==
  [][ /\ ( /\ last'.op = "intercept"
           /\ (MatchesExclusionList(last'.url) \/ ~authState.isAuthenticated) )
         => reqs'[last'.id].pc = "plain"
      /\ \A r \in Reqs :
           ( /\ reqs[r].pc = "plain"
             /\ reqs'[r] # reqs[r]
             /\ last'.res = "401" ) =>
             /\ last'.op = "plainResponse"
             /\ last'.out = "401"
             /\ reqs'[r] = Finished("failed")
             /\ \A q \in Reqs \ {r} : reqs'[q] = reqs[q]
             /\ isRefreshing' = isRefreshing
             /\ refreshTokenSubject' = refreshTokenSubject
             /\ curRefresher' = curRefresher
             /\ forced' = forced
             /\ authState' = authState
    ]_vars

\* C37 witness: a request to an excluded URL of an authenticated session
\* was answered 401 and failed, with no refresh raised.
C37_Witness ==
  /\ last.op = "plainResponse"
  /\ last.res = "401"
  /\ last.out = "401"
  /\ reqs[last.id].pc = "failed"
  /\ authState.isAuthenticated
  /\ ~isRefreshing
  /\ refreshTokenSubject = "null"

\* C38: the guard admits exactly when the provider answered that
\* canActivate() call's identity fetch with an identity, whatever the
\* Session record holds and whether or not start-up or a refresh is still
\* in flight: a confirmed user is admitted without redirect, an unconfirmed
\* one is denied and sent to /login.
C38_VerdictFollowsProvider ==
  last.op = "canActivate" =>
    /\ last.res \in Users => (last.ok /\ last.to = "none")
    /\ last.res \notin Users => (~last.ok /\ last.to = "/login" /\ nav = "/login")

\* C38 witness: the guard admitted a confirmed user while initialization
\* was unfinished, a refresh was in flight and the Session record was
\* unauthenticated.
C38_Witness ==
  /\ last.op = "canActivate"
  /\ last.res \in Users
  /\ last.ok
  /\ init.pc # "done"
  /\ ~authState.isAuthenticated
  /\ \E c \in Cbs : cbs[c].pc \in RefreshPcs

\* C38 second case: the guard denied an unconfirmed user while the Session
\* record was authenticated.
C38_DeniedWhileSessionAuthenticated ==
  /\ last.op = "canActivate"
  /\ last.res = "fail"
  /\ ~last.ok
  /\ authState.isAuthenticated

\* C39: the call of signIn(), its intermediate awaits, and an exit by
\* failure or with an intermediate step leave the stored return URL as it
\* is; only the exit of a completed sign-in empties the slot, navigating to
\* what it held.
C39_OnlyCompletedSignInConsumes ==
  [][ /\ SignInCalled => returnUrl' = returnUrl
      /\ ( /\ usr.pc \in {"si_signIn", "si_user"}
           /\ usr'.pc \in {"si_user", "si_expiry"}
           /\ usr' # usr )
           => returnUrl' = returnUrl
      /\ (SignInExits /\ (last'.threw \/ last'.res \in SignInSteps))
           => returnUrl' = returnUrl
      /\ (SignInExits /\ returnUrl' # returnUrl) =>
           /\ last'.res = "signedIn"
           /\ last'.ok
           /\ nav' = returnUrl
    ]_vars

\* C39 witness: a sign-in ended in an intermediate step with a return URL
\* stored, and the URL is still stored.
C39_Witness ==
  /\ last.op = "signIn"
  /\ last.res \in SignInSteps
  /\ last.url = <<"/auth/profile">>
  /\ returnUrl = "/auth/profile"

\* C39 second case: a sign-in failed with a return URL stored, and the URL
\* is still stored.
C39_FailedKeepsUrl ==
  /\ last.op = "signIn"
  /\ last.threw
  /\ last.url = <<"/auth/todos">>
  /\ returnUrl = "/auth/todos"

=============================================================================
